---- MODULE Spec2Model ----
(***************************************************************************)
(* Model of src/python/app.py: a FastAPI service that loads a tokenizer    *)
(* and a sequence-classification model in its startup hook (load_model)    *)
(* and answers /, /health, /analyze and /stats.                            *)
(*                                                                         *)
(* A handler that reads the globals more than once is a sequence of steps, *)
(* one per read, so that assignments made by load_model on another thread  *)
(* fall between them; what a handler does between two reads is local and   *)
(* belongs to the step of the earlier read.                                *)
(*                                                                         *)
(* A float32 number is a pair <<m, k>> standing for m / 2^k with           *)
(* m < 2^24 and k <= 149, normalised (m >= 2^23 or k = 149); the rounded   *)
(* confidence of a response is an integer in units of 1e-4 (10000 stands   *)
(* for 1.0).                                                               *)
(***************************************************************************)
EXTENDS Integers, Sequences, FiniteSets, TLC

VARIABLES
    tokenizer,  \* global tokenizer (line 39): None or the loaded tokenizer
    model,      \* global model (line 40): NoModel or the object it is bound
                \* to, [id, path, ckpt, dev, training]
    device,     \* global device (line 41): None, "cpu" or "cuda"
    loadpc,     \* position of the latest call of load_model: "idle" (never
                \* called), the line about to run, "done", "raised"
    failedAt,   \* history: the line at which the latest call threw, or None
    lifespan,   \* the server: "pending", "complete" or "failed" by what it made
                \* of the startup hook, "stopped" once it has exited
    thr,        \* per thread: the handler it runs, the line it is at, its
                \* locals and its outcome
    answered,   \* history: per code, the result of its first successful analysis
    sawError,   \* history: "no", "error" once an analysis has ended with status
                \* 500 before any analysis had succeeded
    detached    \* per object id: a model object that a handler still holds
                \* after the global was bound to another one

vars == <<tokenizer, model, device, loadpc, failedAt, lifespan, thr, answered, sawError, detached>>

None == "None"

\* the value None where a model object is expected
NoModel == [id |-> 0, path |-> None, ckpt |-> 0, dev |-> None, training |-> FALSE]

\* placeholders of a thread that holds no request, locals, exception or response
NoRequest == [code |-> None, filename |-> None]
NoLocals == [logits |-> <<0, 0>>, probabilities |-> <<<<0, 149>>, <<0, 149>>>>,
             prediction_idx |-> -1, confidence |-> <<0, 149>>]
NoHealth == [model_loaded |-> FALSE, tokenizer_loaded |-> FALSE, device |-> None]
NoFault == [where |-> None, kind |-> None, what |-> None]
NoResponse == [status |-> 0]
NoResult == [is_vulnerable |-> FALSE, confidence |-> -1, prediction |-> None]

-----------------------------------------------------------------------------
(* Bounds and input sets *)

NumCheckpoints == 2   \* distinct weight files that may sit at MODEL_PATH
MaxLogit == 1         \* logits range over -MaxLogit..MaxLogit

\* The threads that run handlers: two workers of the server's thread pool.
\* No step of a thread reads another thread's state and no property below
\* relates more than two threads, so two stand for any number.
Threads == {1, 2}

\* The threads from which a test client or a direct caller calls the
\* handlers, while load_model is called from a thread of its own.  No handler
\* writes what another reads, so one calling thread shows every interleaving
\* of a handler with load_model.
Callers == {1}

\* names for the model objects alive at a time: the one the global is bound
\* to and those the handlers hold
ObjIds == 1..(Cardinality(Threads) + 1)

\* the tensors the tokenizer returns (line 187), in the order in which line
\* 196 moves them
Tensors == <<"input_ids", "attention_mask">>

\* request.code values: the schema example of line 94 and one other text
Codes == {"String query = \"SELECT * FROM users WHERE id = \" + userId;",
          "int total = a + b;"}

\* request.filename as sent by the client: the example of line 95, or left out
Absent == "<absent>"
Given == {"UserDAO.java", Absent}

\* The places of the try block of analyze_code where an exception can be
\* thrown: the log calls of lines 183-184, the tokenizer call of lines
\* 187-193, the transfer of each tensor at line 196, the forward pass of
\* lines 200-201, softmax at line 202, argmax at line 203, the indexing at
\* line 204, and the log call and the construction of the response of lines
\* 208-218.
Stages == {"log", "tokenize", "to_device", "forward", "softmax", "argmax",
           "confidence", "response"}

\* what is thrown: an Exception, or a BaseException that is not an Exception
\* (KeyboardInterrupt, SystemExit, GeneratorExit)
Kinds == {"Exception", "BaseException"}

\* how a stage ends: normally, or by throwing
Outcomes == {"ok"} \cup Kinds

\* How a step of the try block and, if it throws an Exception, the except
\* clause after it can end: <<step, clause>>.
Ways == {w \in Outcomes \X Outcomes : w[1] = "Exception" \/ w[2] = "ok"}

\* the exception thrown at a stage by the library called there
Thrown(where, kind) == [where |-> where, kind |-> kind, what |-> where]

\* the exception of the forward pass when the inputs are on another device
\* than the model
DeviceMismatch ==
    [where |-> "forward", kind |-> "Exception",
     what |-> "Expected all tensors to be on the same device"]

LogitVals == (0 - MaxLogit)..MaxLogit

-----------------------------------------------------------------------------
(* load_model *)

MODEL_PATH == "./model/java-vulnerability-detector-final"

LoadLines == {"L58", "L64", "L69", "L70", "L71", "L72"}

LoadRunning == loadpc \in LoadLines

\* line 58: torch.device("cuda" if torch.cuda.is_available() else "cpu")
DetectDevice(cuda) == IF cuda THEN "cuda" ELSE "cpu"

\* faulty variant: the tokenizer is bound to a local, the global stays None
LoadedTokenizerLost == None

\* line 64: the value bound to the global tokenizer
LoadedTokenizer == "microsoft/graphcodebert-base"

\* the threads whose handler holds model object i (read at line 200, not
\* yet called)
Holders(i) == {t \in Threads : thr[t].held = i}

\* a name for a new model object
FreshId == CHOOSE i \in ObjIds : Holders(i) = {}

\* line 69: from_pretrained(MODEL_PATH) builds a new model object on the CPU.
\* The mode it returns the model in is the library's choice, not the
\* source's.
LoadedModel(ckpt, training, id) ==
    [id |-> id, path |-> MODEL_PATH, ckpt |-> ckpt, dev |-> "cpu",
     training |-> training]

\* faulty variant: the call of line 71 is missing
EvalSkipped(m) == m

\* line 71: model.eval() switches dropout off
EvalMode(m) == [m EXCEPT !.training = FALSE]

\* faulty variant: the except clause logs and returns normally
ExceptSwallow == "done"

\* lines 80-82: the except clause logs and raises RuntimeError
ExceptHandler == "raised"

Fail(line) ==
    /\ loadpc' = ExceptHandler
    /\ failedAt' = line

\* load_model is entered (lines 45-52); one call is under way at a time.
\* Nothing is reset on entry: the globals keep what an earlier call bound.
CallLoadModel ==
    /\ ~LoadRunning
    /\ loadpc' = "L58"
    /\ failedAt' = None
    /\ UNCHANGED <<tokenizer, model, device, lifespan, thr, answered, sawError, detached>>

LoadDevice ==
    /\ loadpc = "L58"
    /\ \E ok \in BOOLEAN, cuda \in BOOLEAN :
         IF ok
         THEN /\ device' = DetectDevice(cuda)
              /\ loadpc' = "L64"
              /\ UNCHANGED failedAt
         ELSE Fail("L58") /\ UNCHANGED device
    /\ UNCHANGED <<tokenizer, model, lifespan, thr, answered, sawError, detached>>

LoadTokenizer ==
    /\ loadpc = "L64"
    /\ \E ok \in BOOLEAN :
         IF ok
         THEN /\ tokenizer' = LoadedTokenizer
              /\ loadpc' = "L69"
              /\ UNCHANGED failedAt
         ELSE Fail("L64") /\ UNCHANGED tokenizer
    /\ UNCHANGED <<model, device, lifespan, thr, answered, sawError, detached>>

\* line 69: the global is bound to a new object; the object it was bound to
\* lives on where a handler holds it
LoadModel ==
    /\ loadpc = "L69"
    /\ \E ok \in BOOLEAN, ckpt \in 1..NumCheckpoints, training \in BOOLEAN :
         IF ok
         THEN /\ model' = LoadedModel(ckpt, training, FreshId)
              /\ detached' = IF model # NoModel /\ Holders(model.id) # {}
                             THEN [detached EXCEPT ![model.id] = model]
                             ELSE detached
              /\ loadpc' = "L70"
              /\ UNCHANGED failedAt
         ELSE Fail("L69") /\ UNCHANGED <<model, detached>>
    /\ UNCHANGED <<tokenizer, device, lifespan, thr, answered, sawError>>

\* line 70: model.to(device) moves the object the global is bound to, in place
LoadToDevice ==
    /\ loadpc = "L70"
    /\ \E ok \in BOOLEAN :
         IF ok
         THEN /\ model' = [model EXCEPT !.dev = device]
              /\ loadpc' = "L71"
              /\ UNCHANGED failedAt
         ELSE Fail("L70") /\ UNCHANGED model
    /\ UNCHANGED <<tokenizer, device, lifespan, thr, answered, sawError, detached>>

\* line 71: model.eval(), in place
LoadEval ==
    /\ loadpc = "L71"
    /\ \E ok \in BOOLEAN :
         IF ok
         THEN /\ model' = EvalMode(model)
              /\ loadpc' = "L72"
              /\ UNCHANGED failedAt
         ELSE Fail("L71") /\ UNCHANGED model
    /\ UNCHANGED <<tokenizer, device, lifespan, thr, answered, sawError, detached>>

\* lines 72-78: the closing log calls, still inside the try block
LoadLog ==
    /\ loadpc = "L72"
    /\ \E ok \in BOOLEAN :
         IF ok
         THEN loadpc' = "done" /\ UNCHANGED failedAt
         ELSE Fail("L72")
    /\ UNCHANGED <<tokenizer, model, device, lifespan, thr, answered, sawError, detached>>

-----------------------------------------------------------------------------
(* The server around the startup hook (lines 44, 268-273) *)

\* load_model returned: the server starts accepting requests
StartupComplete ==
    /\ lifespan = "pending"
    /\ loadpc = "done"
    /\ lifespan' = "complete"
    /\ UNCHANGED <<tokenizer, model, device, loadpc, failedAt, thr, answered, sawError, detached>>

\* load_model raised: the server reports the failed startup and exits
StartupFailed ==
    /\ lifespan = "pending"
    /\ loadpc = "raised"
    /\ lifespan' = "failed"
    /\ UNCHANGED <<tokenizer, model, device, loadpc, failedAt, thr, answered, sawError, detached>>

Accepting == lifespan = "complete"

\* the server runs the startup hook once, before it accepts a request
Startup ==
    /\ lifespan = "pending"
    /\ loadpc = "idle"
    /\ CallLoadModel

-----------------------------------------------------------------------------
(* The inference arithmetic of analyze_code, in float32 *)

\* 0.0 and 1.0
Zero == <<0, 149>>
One == <<8388608, 23>>

\* a =< b for two normalised floats
F32Leq(a, b) == a[2] > b[2] \/ (a[2] = b[2] /\ a[1] <= b[1])

\* float32 exp(-d) for an integer d >= 0: exp(-d) rounded to the nearest
\* float32, subnormal from d = 88 on and 0.0 from d = 104 on
ExpNeg(d) ==
    CASE
         d = 0 -> <<8388608, 23>>
      [] d = 1 -> <<12343986, 25>>
      [] d = 2 -> <<9082197, 26>>
      [] d = 3 -> <<13364614, 28>>
      [] d = 4 -> <<9833134, 29>>
      [] d = 5 -> <<14469631, 31>>
      [] d = 6 -> <<10646160, 32>>
      [] d = 7 -> <<15666013, 34>>
      [] d = 8 -> <<11526408, 35>>
      [] d = 9 -> <<8480657, 36>>
      [] d = 10 -> <<12479438, 38>>
      [] d = 11 -> <<9181857, 39>>
      [] d = 12 -> <<13511266, 41>>
      [] d = 13 -> <<9941034, 42>>
      [] d = 14 -> <<14628408, 44>>
      [] d = 15 -> <<10762981, 45>>
      [] d = 16 -> <<15837918, 47>>
      [] d = 17 -> <<11652889, 48>>
      [] d = 18 -> <<8573716, 49>>
      [] d = 19 -> <<12616376, 51>>
      [] d = 20 -> <<9282611, 52>>
      [] d = 21 -> <<13659527, 54>>
      [] d = 22 -> <<10050118, 55>>
      [] d = 23 -> <<14788927, 57>>
      [] d = 24 -> <<10881084, 58>>
      [] d = 25 -> <<16011709, 60>>
      [] d = 26 -> <<11780757, 61>>
      [] d = 27 -> <<8667797, 62>>
      [] d = 28 -> <<12754817, 64>>
      [] d = 29 -> <<9384470, 65>>
      [] d = 30 -> <<13809414, 67>>
      [] d = 31 -> <<10160399, 68>>
      [] d = 32 -> <<14951208, 70>>
      [] d = 33 -> <<11000484, 71>>
      [] d = 34 -> <<16187407, 73>>
      [] d = 35 -> <<11910029, 74>>
      [] d = 36 -> <<8762909, 75>>
      [] d = 37 -> <<12894777, 77>>
      [] d = 38 -> <<9487447, 78>>
      [] d = 39 -> <<13960946, 80>>
      [] d = 40 -> <<10271890, 81>>
      [] d = 41 -> <<15115269, 83>>
      [] d = 42 -> <<11121193, 84>>
      [] d = 43 -> <<16365034, 86>>
      [] d = 44 -> <<12040719, 87>>
      [] d = 45 -> <<8859066, 88>>
      [] d = 46 -> <<13036273, 90>>
      [] d = 47 -> <<9591554, 91>>
      [] d = 48 -> <<14114141, 93>>
      [] d = 49 -> <<10384605, 94>>
      [] d = 50 -> <<15281131, 96>>
      [] d = 51 -> <<11243228, 97>>
      [] d = 52 -> <<16544609, 99>>
      [] d = 53 -> <<12172843, 100>>
      [] d = 54 -> <<8956277, 101>>
      [] d = 55 -> <<13179321, 103>>
      [] d = 56 -> <<9696803, 104>>
      [] d = 57 -> <<14269018, 106>>
      [] d = 58 -> <<10498556, 107>>
      [] d = 59 -> <<15448812, 109>>
      [] d = 60 -> <<11366601, 110>>
      [] d = 61 -> <<16726155, 112>>
      [] d = 62 -> <<12306417, 113>>
      [] d = 63 -> <<9054556, 114>>
      [] d = 64 -> <<13323940, 116>>
      [] d = 65 -> <<9803207, 117>>
      [] d = 66 -> <<14425593, 119>>
      [] d = 67 -> <<10613758, 120>>
      [] d = 68 -> <<15618334, 122>>
      [] d = 69 -> <<11491328, 123>>
      [] d = 70 -> <<8454847, 124>>
      [] d = 71 -> <<12441457, 126>>
      [] d = 72 -> <<9153912, 127>>
      [] d = 73 -> <<13470145, 129>>
      [] d = 74 -> <<9910779, 130>>
      [] d = 75 -> <<14583887, 132>>
      [] d = 76 -> <<10730224, 133>>
      [] d = 77 -> <<15789716, 135>>
      [] d = 78 -> <<11617424, 136>>
      [] d = 79 -> <<8547623, 137>>
      [] d = 80 -> <<12577978, 139>>
      [] d = 81 -> <<9254359, 140>>
      [] d = 82 -> <<13617954, 142>>
      [] d = 83 -> <<10019531, 143>>
      [] d = 84 -> <<14743917, 145>>
      [] d = 85 -> <<10847968, 146>>
      [] d = 86 -> <<15962978, 148>>
      [] d = 87 -> <<11744903, 149>>
      [] d = 88 -> <<4320708, 149>>
      [] d = 89 -> <<1589500, 149>>
      [] d = 90 -> <<584744, 149>>
      [] d = 91 -> <<215115, 149>>
      [] d = 92 -> <<79137, 149>>
      [] d = 93 -> <<29113, 149>>
      [] d = 94 -> <<10710, 149>>
      [] d = 95 -> <<3940, 149>>
      [] d = 96 -> <<1449, 149>>
      [] d = 97 -> <<533, 149>>
      [] d = 98 -> <<196, 149>>
      [] d = 99 -> <<72, 149>>
      [] d = 100 -> <<27, 149>>
      [] d = 101 -> <<10, 149>>
      [] d = 102 -> <<4, 149>>
      [] d = 103 -> <<1, 149>>
      [] OTHER -> Zero

\* the mantissa n at scale k after rounding: 2^24 is 2^23 one scale up
Carry(n, k) == IF n = 16777216 THEN <<8388608, k - 1>> ELSE <<n, k>>

\* float32 addition a + b of two floats that are not negative, rounded to
\* nearest, ties to even
F32Add(a, b) ==
    LET hi == IF F32Leq(a, b) THEN b ELSE a
        lo == IF F32Leq(a, b) THEN a ELSE b
        k == lo[2] - hi[2]
    IN  IF k >= 25 THEN hi
        ELSE LET q == lo[1] \div 2^k
                 r == lo[1] % 2^k
                 t == hi[1] + q
                 h == t \div 2
             IN  IF t < 16777216
                 THEN IF 2 * r > 2^k \/ (2 * r = 2^k /\ t % 2 = 1)
                      THEN Carry(t + 1, hi[2])
                      ELSE <<t, hi[2]>>
                 ELSE IF t % 2 = 1 /\ (r > 0 \/ h % 2 = 1)
                      THEN Carry(h + 1, hi[2] - 1)
                      ELSE <<h, hi[2] - 1>>

\* binary long division, n more bits: from quotient q and remainder r < s
\* to <<quotient, remainder>> of (q * s + r) * 2^n by s
RECURSIVE DivBits(_, _, _, _)
DivBits(q, r, s, n) ==
    IF n = 0 THEN <<q, r>>
    ELSE IF 2 * r >= s THEN DivBits(2 * q + 1, 2 * r - s, s, n - 1)
    ELSE DivBits(2 * q, 2 * r, s, n - 1)

\* a subnormal float with its mantissa brought up to 2^23..2^24-1
RECURSIVE ScaleUp(_)
ScaleUp(a) == IF a[1] >= 8388608 THEN a ELSE ScaleUp(<<2 * a[1], a[2] + 1>>)

\* float32 division z / s for 0 <= z <= s and s > 0, rounded to nearest,
\* ties to even, subnormal below 2^-126
F32Div(z, s) ==
    IF z[1] = 0 THEN Zero
    ELSE LET zz == ScaleUp(z)
             ss == ScaleUp(s)
             nat == zz[2] - ss[2] + (IF zz[1] >= ss[1] THEN 23 ELSE 24)
             k == IF nat > 149 THEN 149 ELSE nat
             n == k - (zz[2] - ss[2])
         IN  IF n >= 0
             THEN LET qr == DivBits(zz[1] \div ss[1], zz[1] % ss[1], ss[1], n)
                  IN  IF \/ 2 * qr[2] > ss[1]
                         \/ (2 * qr[2] = ss[1] /\ qr[1] % 2 = 1)
                      THEN Carry(qr[1] + 1, k)
                      ELSE <<qr[1], k>>
             ELSE IF n = -1 /\ zz[1] > ss[1] THEN <<1, k>>
             ELSE Zero

\* line 202: torch.softmax(logits, dim=-1), computed in float32 as
\* exp(l - max) / sum
Softmax(l) ==
    LET m == IF l[1] >= l[2] THEN l[1] ELSE l[2]
        z0 == ExpNeg(m - l[1])
        z1 == ExpNeg(m - l[2])
        sum == F32Add(z0, z1)
    IN  <<F32Div(z0, sum), F32Div(z1, sum)>>

\* Softmax on every pair of logits of the model, as an explicit table (the
\* merge with the empty function makes TLC evaluate it once)
SoftmaxOf == [l \in LogitVals \X LogitVals |-> Softmax(l)] @@ <<>>

\* faulty variant: the index of the smaller logit
ArgMin(l) == IF l[2] < l[1] THEN 1 ELSE 0

\* line 203: torch.argmax(logits, dim=-1).item(); the first maximal index on a tie
ArgMax(l) == IF l[2] > l[1] THEN 1 ELSE 0

\* line 215: round(confidence, 4) for a float p in [0, 1]: the exact binary
\* value to the nearest multiple of 1e-4, ties to even, in units of 1e-4.
\* p * 10^4 = m * 625 / 2^(k - 4), split so that no product passes 2^31.
Round4(p) ==
    LET t == p[2] - 16
        a == p[1] \div 4096
        b == p[1] % 4096
        n == a * 625 + (b * 625) \div 4096
        low == (b * 625) % 4096
    IN  IF t > 23 THEN 0
        ELSE LET q == n \div 2^t
                 rest == n % 2^t
             IN  IF \/ 2 * rest > 2^t
                    \/ (2 * rest = 2^t /\ (low > 0 \/ q % 2 = 1))
                 THEN q + 1
                 ELSE q

\* faulty variant: the label mapping inverted
IsSafeIndex(idx) == idx = 0

\* line 208
IsVulnerable(idx) == idx = 1

\* line 209
PredictionLabel(isv) == IF isv THEN "VULNERABLE" ELSE "SAFE"

\* The network is opaque: a checkpoint is a fixed table from input text to a
\* pair of logits.  The tables differ per checkpoint and per text and contain
\* ties, class 0 ahead and class 1 ahead.
CodeRank(code) == IF code = "int total = a + b;" THEN 1 ELSE 0
LogitPairAt(i) ==
    LET n == 2 * MaxLogit + 1
    IN  <<((i \div n) % n) - MaxLogit, (i % n) - MaxLogit>>
Checkpoint(k) == [c \in Codes |-> LogitPairAt(4 * k + 3 * CodeRank(c))]

\* the logits of a forward pass of checkpoint m.ckpt in evaluation mode
Forward(m, code) == Checkpoint(m.ckpt)[code]

\* lines 200-201: outputs = model(**inputs); logits = outputs.logits.  In
\* training mode dropout is active (no_grad does not switch it off) and the
\* logits are any pair; in evaluation mode they are those of the checkpoint.
ModelCall(m, code) ==
    IF m.training THEN LogitVals \X LogitVals ELSE {Forward(m, code)}

\* faulty variant: the forward pass updates the weights
ForwardTrains(m) == [m EXCEPT !.ckpt = (m.ckpt % NumCheckpoints) + 1]

\* lines 199-200: a forward pass under no_grad leaves the model as it was
ModelAfterForward(m) == m

-----------------------------------------------------------------------------
(* Requests and responses *)

\* faulty variant: the filename sent by the client is dropped
RequestFilenameFixed(given) == "unknown.java"

\* line 89: filename: str = "unknown.java"
RequestFilename(given) == IF given = Absent THEN "unknown.java" ELSE given

\* which of the two globals are populated
Loaded(m, tk) == [model |-> m # NoModel, tokenizer |-> tk # None]

\* A thread: the handler it runs (endpoint) and the line it is about to run
\* (pc), the request as parsed (req) and as sent (given), the locals of
\* health_check (health) and of analyze_code (inputs: the devices the tensors
\* moved so far are on; locals), the exception thrown in the try block
\* (fault), how the except clause ended (clause: None when it was not
\* entered), the model object read at line 200 and not yet called (held: 0
\* when there is none), the calls made (calls) and the outcome (resp).  at and later are
\* history: which globals were populated when the handler read them first
\* and when health_check read them last.
IdleThread ==
    [pc |-> "idle", endpoint |-> None, req |-> NoRequest, given |-> None,
     at |-> Loaded(NoModel, None), later |-> Loaded(NoModel, None),
     health |-> NoHealth, inputs |-> <<>>, fault |-> NoFault, clause |-> None,
     held |-> 0,
     calls |-> <<>>, locals |-> NoLocals, resp |-> NoResponse]

\* the fields of a successful response that the model computed
ResultOf(resp) ==
    [is_vulnerable |-> resp.is_vulnerable, confidence |-> resp.confidence,
     prediction |-> resp.prediction]

\* faulty variant: "and" in place of "or"
NotLoadedBoth(m, tk) == m = NoModel /\ tk = None

\* line 176: if model is None or tokenizer is None
NotLoaded(m, tk) == m = NoModel \/ tk = None

\* lines 177-180
Unavailable ==
    [status |-> 503,
     detail |-> "Model not loaded. Please wait for startup to complete."]

\* an exception leaves analyze_code; the handler produces no response
Escapes(e) ==
    [status |-> -1, detail |-> "unhandled", error |-> e.what, kind |-> e.kind]

\* faulty variant: the except clause catches nothing
AnalysisErrorPropagates(e) == Escapes(e)

\* lines 222-225: raise HTTPException(500, f"Analysis failed: {str(e)}")
AnalysisError(e) == [status |-> 500, detail |-> "Analysis failed: ", error |-> e.what]

\* lines 213-218
AnalysisResponse(isv, confidence, label, filename) ==
    [status |-> 200, is_vulnerable |-> isv, confidence |-> Round4(confidence),
     prediction |-> label, filename |-> filename]

\* line 220: whether "except Exception" catches e
Caught(e) == e.kind = "Exception"

\* lines 220-225: how the handler ends when e is thrown inside the try block.
\* An exception that is not an Exception passes the except clause.  Inside
\* the clause, f"{e}" at line 221 and str(e) at line 224 call e.__str__ and
\* line 221 calls the logger; c is how these end.  What they throw is
\* thrown outside the try block and leaves the handler.
ExceptClause(e, c) ==
    IF ~Caught(e) THEN Escapes(e)
    ELSE IF c = "ok" THEN AnalysisError(e)
    ELSE Escapes(Thrown("except", c))

\* a thread whose handler has thrown e inside the try block
Thrower(th, e, c) ==
    [th EXCEPT !.pc = "done", !.fault = e,
               !.clause = IF Caught(e) THEN c ELSE None,
               !.resp = ExceptClause(e, c)]

\* faulty variant: ready looks at the tokenizer alone
HealthBodyTokenizerOnly(ml, tl, dev, m, tk) ==
    [status |-> 200, health |-> "healthy", model_loaded |-> ml,
     tokenizer_loaded |-> tl, device |-> dev, ready |-> tk # None]

\* lines 142-148: the response from the values read at lines 144, 145 and
\* 146 and the globals as read at line 147
HealthBody(ml, tl, dev, m, tk) ==
    [status |-> 200, health |-> "healthy", model_loaded |-> ml,
     tokenizer_loaded |-> tl, device |-> dev,
     ready |-> (m # NoModel /\ tk # None)]

\* The history of the served process: the response thread t has just produced
Record(t) ==
    LET resp == thr'[t].resp
        code == thr'[t].req.code
        ended == Accepting /\ thr'[t].pc = "done"
    IN  /\ answered' =
             IF ended /\ resp.status = 200 /\ answered[code] = NoResult
             THEN [answered EXCEPT ![code] = ResultOf(resp)]
             ELSE answered
        /\ sawError' =
             IF ended /\ resp.status = 500 /\ \A c \in Codes : answered[c] = NoResult
             THEN "error"
             ELSE sawError

\* lines 118-134
root(t) ==
    /\ thr[t].pc = "idle"
    /\ thr' = [thr EXCEPT ![t] =
                 [IdleThread EXCEPT !.pc = "done", !.endpoint = "/",
                     !.resp = [status |-> 200,
                               service |-> "Java Vulnerability Detector"]]]
    /\ UNCHANGED <<tokenizer, model, device, loadpc, failedAt, lifespan, answered, sawError, detached>>

\* lines 138-144: health_check is entered and reads model
health_check(t) ==
    /\ thr[t].pc = "idle"
    /\ thr' = [thr EXCEPT ![t] =
                 [IdleThread EXCEPT !.pc = "L145", !.endpoint = "/health",
                     !.at = Loaded(model, tokenizer),
                     !.health = [NoHealth EXCEPT !.model_loaded = model # NoModel]]]
    /\ UNCHANGED <<tokenizer, model, device, loadpc, failedAt, lifespan, answered, sawError, detached>>

\* line 145: reads tokenizer
health_check_145(t) ==
    /\ thr[t].pc = "L145"
    /\ thr' = [thr EXCEPT ![t].pc = "L146",
                          ![t].health.tokenizer_loaded = tokenizer # None]
    /\ UNCHANGED <<tokenizer, model, device, loadpc, failedAt, lifespan, answered, sawError, detached>>

\* line 146: reads device
health_check_146(t) ==
    /\ thr[t].pc = "L146"
    /\ thr' = [thr EXCEPT ![t].pc = "L147", ![t].health.device = device]
    /\ UNCHANGED <<tokenizer, model, device, loadpc, failedAt, lifespan, answered, sawError, detached>>

\* lines 147-148: reads model and, if it is not None, tokenizer, and returns.
\* The model is assigned after the tokenizer and neither goes back to None,
\* so the two reads see what one read of both at the first of them sees.
health_check_147(t) ==
    /\ thr[t].pc = "L147"
    /\ thr' = [thr EXCEPT ![t].pc = "done",
                          ![t].later = Loaded(model, tokenizer),
                          ![t].resp = HealthBody(thr[t].health.model_loaded,
                                                 thr[t].health.tokenizer_loaded,
                                                 thr[t].health.device,
                                                 model, tokenizer)]
    /\ UNCHANGED <<tokenizer, model, device, loadpc, failedAt, lifespan, answered, sawError, detached>>

\* lines 152-184: analyze_code is entered with the parsed request, reads
\* model and tokenizer for the guard of line 176 (as at line 147, one read of
\* both) and, past the guard, makes the log calls of lines 183-184
analyze_code(t) ==
    /\ thr[t].pc = "idle"
    /\ \E code \in Codes, given \in Given, w \in Ways :
         LET req == [code |-> code, filename |-> RequestFilename(given)]
             th == [IdleThread EXCEPT !.endpoint = "/analyze", !.req = req,
                                      !.given = given,
                                      !.at = Loaded(model, tokenizer)]
         IN  thr' = [thr EXCEPT ![t] =
                       IF NotLoaded(model, tokenizer)
                       THEN [th EXCEPT !.pc = "done", !.resp = Unavailable]
                       ELSE IF w[1] = "ok"
                       THEN [th EXCEPT !.pc = "L187"]
                       ELSE Thrower(th, Thrown("log", w[1]), w[2])]
    /\ Record(t)
    /\ UNCHANGED <<tokenizer, model, device, loadpc, failedAt, lifespan, detached>>

\* lines 187-193: reads tokenizer and calls it
analyze_code_187(t) ==
    /\ thr[t].pc = "L187"
    /\ \E w \in Ways :
         LET th == [thr[t] EXCEPT !.calls = Append(@, "tokenizer")]
         IN  thr' = [thr EXCEPT ![t] =
                       IF w[1] = "ok"
                       THEN [th EXCEPT !.pc = "L196"]
                       ELSE Thrower(th, Thrown("tokenize", w[1]), w[2])]
    /\ Record(t)
    /\ UNCHANGED <<tokenizer, model, device, loadpc, failedAt, lifespan, detached>>

\* line 196, once per tensor: reads device and moves the next tensor to it
analyze_code_196(t) ==
    /\ thr[t].pc = "L196"
    /\ \E w \in Ways :
         LET k == Tensors[Len(thr[t].inputs) + 1]
             th == [thr[t] EXCEPT !.calls = Append(@, k)]
             moved == Append(thr[t].inputs, device)
         IN  thr' = [thr EXCEPT ![t] =
                       IF w[1] = "ok"
                       THEN [th EXCEPT !.inputs = moved,
                                !.pc = IF Len(moved) = Len(Tensors)
                                       THEN "L200" ELSE "L196"]
                       ELSE Thrower(th, Thrown("to_device", w[1]), w[2])]
    /\ Record(t)
    /\ UNCHANGED <<tokenizer, model, device, loadpc, failedAt, lifespan, detached>>

\* lines 199-200: enters no_grad and reads model; the handler now holds the
\* object the global is bound to
analyze_code_200(t) ==
    /\ thr[t].pc = "L200"
    /\ thr' = [thr EXCEPT ![t].pc = "L200call", ![t].held = model.id]
    /\ UNCHANGED <<tokenizer, model, device, loadpc, failedAt, lifespan, answered,
                   sawError, detached>>

\* the points of lines 200-218 where an exception can be thrown, in order
AfterRead == <<"forward", "softmax", "argmax", "confidence", "response">>

\* the model object thread t holds, as it is now: load_model may have moved
\* it or switched its mode in place since line 200 read it
HeldModel(t) ==
    IF thr[t].held = model.id THEN model ELSE detached[thr[t].held]

\* analyze_code ends for thread t, as thread record th; the object it held
\* is left as obj and, when nothing else refers to it, is gone
Finish(t, th, obj) ==
    LET h == thr[t].held
    IN  /\ thr' = [thr EXCEPT ![t] = th]
        /\ model' = IF h = model.id THEN obj ELSE model
        /\ detached' = IF h = model.id THEN detached
                       ELSE IF Holders(h) = {t}
                       THEN [detached EXCEPT ![h] = NoModel]
                       ELSE [detached EXCEPT ![h] = obj]

\* lines 200-218: calls the object read at line 200; the forward pass throws
\* when a tensor is on another device than that object is now; then
\* softmax, argmax, the indexing and the construction of the response,
\* which read no global.  The first n - 1 points of AfterRead pass; point n,
\* if there is one, throws.
analyze_code_200_call(t) ==
    /\ thr[t].pc = "L200call"
    /\ LET th == [thr[t] EXCEPT !.calls = Append(@, "model"), !.held = 0]
           obj == HeldModel(t)
           matched == \A i \in 1..Len(thr[t].inputs) :
                         thr[t].inputs[i] = obj.dev
       IN  \E w \in Ways :
             \/ /\ w[1] # "ok"
                /\ Finish(t, Thrower(th, Thrown("forward", w[1]), w[2]), obj)
             \/ /\ ~matched
                /\ w[1] = "Exception"
                /\ Finish(t, Thrower(th, DeviceMismatch, w[2]), obj)
             \/ /\ matched
                /\ \E n \in 2..(Len(AfterRead) + 1),
                      logits \in ModelCall(obj, thr[t].req.code) :
                     LET probabilities == SoftmaxOf[logits]
                         prediction_idx == ArgMax(logits)
                         confidence == probabilities[prediction_idx + 1]
                         is_vulnerable == IsVulnerable(prediction_idx)
                         prediction_label == PredictionLabel(is_vulnerable)
                         l1 == [th EXCEPT !.locals.logits = logits]
                         l2 == [l1 EXCEPT !.locals.probabilities = probabilities]
                         l3 == [l2 EXCEPT !.locals.prediction_idx = prediction_idx]
                         l4 == [l3 EXCEPT !.locals.confidence = confidence]
                         reached == <<th, l1, l2, l3, l4>>
                     IN  /\ (n <= Len(AfterRead)) <=> (w[1] # "ok")
                         /\ Finish(t,
                                IF n <= Len(AfterRead)
                                THEN Thrower(reached[n], Thrown(AfterRead[n], w[1]), w[2])
                                ELSE [l4 EXCEPT !.pc = "done",
                                         !.resp = AnalysisResponse(is_vulnerable,
                                                      confidence, prediction_label,
                                                      thr[t].req.filename)],
                                ModelAfterForward(obj))
    /\ Record(t)
    /\ UNCHANGED <<tokenizer, device, loadpc, failedAt, lifespan>>

\* lines 228-258
get_stats(t) ==
    /\ thr[t].pc = "idle"
    /\ thr' = [thr EXCEPT ![t] =
                 [IdleThread EXCEPT !.pc = "done", !.endpoint = "/stats",
                     !.resp = [status |-> 200, model_name |-> "GraphCodeBERT"]]]
    /\ UNCHANGED <<tokenizer, model, device, loadpc, failedAt, lifespan, answered, sawError, detached>>

\* the handler's outcome has left the thread, which is free again
Return(t) ==
    /\ thr[t].pc = "done"
    /\ thr' = [thr EXCEPT ![t] = IdleThread]
    /\ UNCHANGED <<tokenizer, model, device, loadpc, failedAt, lifespan, answered, sawError, detached>>

-----------------------------------------------------------------------------
(* Specifications *)

Init ==
    /\ tokenizer = None
    /\ model = NoModel
    /\ device = None
    /\ loadpc = "idle"
    /\ failedAt = None
    /\ lifespan = "pending"
    /\ thr = [t \in Threads |-> IdleThread]
    /\ answered = [c \in Codes |-> NoResult]
    /\ sawError = "no"
    /\ detached = [i \in ObjIds |-> NoModel]

\* The process as started by uvicorn.run (lines 261-273): the startup hook
\* runs once, requests are routed to the handlers once it has returned.
ServeRoot(t) == Accepting /\ root(t)
ServeHealth(t) == Accepting /\ health_check(t)
ServeAnalyze(t) == Accepting /\ analyze_code(t)
ServeStats(t) == Accepting /\ get_stats(t)

\* lines 261-273: uvicorn.run returns.  A KeyboardInterrupt or SystemExit
\* that has left a handler can end the server, and with it every request.
Shutdown ==
    /\ Accepting
    /\ \E t \in Threads :
         /\ thr[t].pc = "done"
         /\ thr[t].resp.status = -1
         /\ thr[t].resp.kind = "BaseException"
    /\ lifespan' = "stopped"
    /\ thr' = [t \in Threads |-> IdleThread]
    /\ UNCHANGED <<tokenizer, model, device, loadpc, failedAt, answered, sawError, detached>>

Next ==
    \/ Startup
    \/ LoadDevice
    \/ LoadTokenizer
    \/ LoadModel
    \/ LoadToDevice
    \/ LoadEval
    \/ LoadLog
    \/ StartupComplete
    \/ StartupFailed
    \/ \E t \in Threads : ServeRoot(t)
    \/ \E t \in Threads : ServeHealth(t)
    \/ \E t \in Threads : health_check_145(t)
    \/ \E t \in Threads : health_check_146(t)
    \/ \E t \in Threads : health_check_147(t)
    \/ \E t \in Threads : ServeAnalyze(t)
    \/ \E t \in Threads : analyze_code_187(t)
    \/ \E t \in Threads : analyze_code_196(t)
    \/ \E t \in Threads : analyze_code_200(t)
    \/ \E t \in Threads : analyze_code_200_call(t)
    \/ \E t \in Threads : ServeStats(t)
    \/ \E t \in Threads : Return(t)
    \/ Shutdown

Spec == Init /\ [][Next]_vars

\* The app object driven without the server's startup gate, by a test client
\* or by direct calls: load_model is called any number of times, and the
\* handlers are called and run at any time, also while load_model is under
\* way on another thread.
NextDirect ==
    \/ CallLoadModel
    \/ LoadDevice
    \/ LoadTokenizer
    \/ LoadModel
    \/ LoadToDevice
    \/ LoadEval
    \/ LoadLog
    \/ \E t \in Callers : root(t)
    \/ \E t \in Callers : health_check(t)
    \/ \E t \in Callers : health_check_145(t)
    \/ \E t \in Callers : health_check_146(t)
    \/ \E t \in Callers : health_check_147(t)
    \/ \E t \in Callers : analyze_code(t)
    \/ \E t \in Callers : analyze_code_187(t)
    \/ \E t \in Callers : analyze_code_196(t)
    \/ \E t \in Callers : analyze_code_200(t)
    \/ \E t \in Callers : analyze_code_200_call(t)
    \/ \E t \in Callers : get_stats(t)
    \/ \E t \in Callers : Return(t)

SpecDirect == Init /\ [][NextDirect]_vars

-----------------------------------------------------------------------------
(* Properties *)

Analyzed(t) == thr[t].pc = "done" /\ thr[t].endpoint = "/analyze"

Succeeded(t) == Analyzed(t) /\ thr[t].resp.status = 200

Checked(t) == thr[t].pc = "done" /\ thr[t].endpoint = "/health"

Ready == tokenizer # None /\ model # NoModel

AllIdle == \A t \in Threads : thr[t].pc = "idle"

\* C1: an /analyze request called while the model or the tokenizer is not
\* loaded ends with status 503, without a call to the tokenizer, a device
\* transfer or a forward pass and without entering the try block; it is
\* never a 500 or another outcome.  A request called with both loaded is
\* never answered 503.
C1_NotLoadedGives503 ==
    \A t \in Threads :
        /\ (Analyzed(t) /\ (~thr[t].at.model \/ ~thr[t].at.tokenizer))
              => /\ thr[t].resp = Unavailable
                 /\ thr[t].resp.status = 503
                 /\ thr[t].calls = <<>>
                 /\ thr[t].inputs = <<>>
                 /\ thr[t].fault = NoFault
                 /\ thr[t].clause = None
        /\ (Analyzed(t) /\ thr[t].at.model /\ thr[t].at.tokenizer)
              => thr[t].resp.status # 503

\* C1 witness: the model load failed after the tokenizer was loaded, and an
\* /analyze request called in that state got its 503.
C1_Witness ==
    \E t \in Threads :
        /\ Analyzed(t)
        /\ failedAt = "L69"
        /\ tokenizer # None
        /\ model = NoModel
        /\ thr[t].at.tokenizer
        /\ ~thr[t].at.model
        /\ thr[t].resp.status = 503

\* C2 as claimed: in every reachable state tokenizer and model are both
\* populated or both absent.
C2_BothOrNeither == (tokenizer = None) <=> (model = NoModel)

\* C2 amended: tokenizer and model are both absent before load_model starts
\* and both populated once it has completed (so whenever requests are
\* served); in between and after a failure the model is never populated
\* without the tokenizer.
C2_BothOrNeitherOutsideLoad ==
    /\ loadpc = "idle" => (tokenizer = None /\ model = NoModel)
    /\ loadpc = "done" => (tokenizer # None /\ model # NoModel)
    /\ Accepting => (tokenizer # None /\ model # NoModel)
    /\ model # NoModel => tokenizer # None

\* C2 witness: the load has completed, both globals are populated and a
\* request is being served.
C2_Witness ==
    /\ loadpc = "done"
    /\ Accepting
    /\ tokenizer = LoadedTokenizer
    /\ model # NoModel
    /\ \E t \in Threads : Succeeded(t)

\* C3: every failure inside load_model ends the startup hook by raising, a
\* raised startup never becomes a serving process, and a handler only ever
\* runs after load_model has completed without a failure, with tokenizer and
\* model loaded and the model on the selected device.
C3_NoRequestBeforeLoad ==
    /\ failedAt # None => (loadpc = "raised" /\ lifespan # "complete")
    /\ loadpc = "raised" => failedAt \in LoadLines
    /\ \A t \in Threads :
         thr[t].pc # "idle"
            => /\ loadpc = "done"
               /\ failedAt = None
               /\ lifespan = "complete"
               /\ Ready
               /\ model.dev = device

\* C3 witness: moving the model to the device failed with tokenizer and model
\* already bound; the startup was reported as failed and no handler runs.
C3_Witness ==
    /\ failedAt = "L70"
    /\ loadpc = "raised"
    /\ lifespan = "failed"
    /\ Ready
    /\ AllIdle

\* C4 as claimed: with the resource ready, any exception thrown in the try
\* block ends the request with status 500 "Analysis failed", and nothing
\* else than a response leaves the handler.
C4_AnyExceptionGives500 ==
    \A t \in Threads :
        /\ (Analyzed(t) /\ thr[t].fault # NoFault)
              => /\ thr[t].resp.status = 500
                 /\ thr[t].resp.detail = "Analysis failed: "
        /\ Analyzed(t) => thr[t].resp.status \in {200, 500, 503}

\* a request that has ended with an exception leaving the handler
Escaped(t) == Analyzed(t) /\ thr[t].resp.status = -1

\* the step ends the request of thread t with status 500
Ends500(t) ==
    thr[t].pc # "done" /\ thr'[t].pc = "done" /\ thr'[t].resp.status = 500

\* C4 amended: with the resource ready, an exception derived from Exception
\* thrown at any point of the try block is caught after one attempt (no
\* stage is called twice), and the request ends with status 500 "Analysis
\* failed" unless a statement of the except clause itself throws.  An
\* exception that is not derived from Exception and an exception thrown
\* inside the except clause leave the handler, and nothing else does.  A
\* request that ends with 500 leaves the resource and the process as they
\* were, and the process stops serving only after an exception that is not
\* derived from Exception has left a handler.
C4_ExceptionGives500 ==
    /\ [](\A t \in Threads :
            /\ (Analyzed(t) /\ thr[t].fault.kind = "Exception")
                  => /\ thr[t].clause \in Outcomes
                     /\ thr[t].clause = "ok"
                           => /\ thr[t].resp.status = 500
                              /\ thr[t].resp.detail = "Analysis failed: "
                              /\ thr[t].resp.error = thr[t].fault.what
                     /\ Len(thr[t].calls) \in 0..(Len(Tensors) + 2)
                     /\ \A i, j \in 1..Len(thr[t].calls) :
                          thr[t].calls[i] = thr[t].calls[j] => i = j
            /\ Analyzed(t)
                  => /\ thr[t].resp.status \in {200, 500, 503, -1}
                     /\ thr[t].fault # NoFault => thr[t].fault.where \in Stages
                     /\ thr[t].resp.status = -1
                           <=> \/ thr[t].fault.kind = "BaseException"
                               \/ thr[t].clause \in Kinds
                     /\ thr[t].resp.status = 500
                           <=> (thr[t].fault.kind = "Exception" /\ thr[t].clause = "ok")
                     /\ thr[t].resp.status = 200 => thr[t].fault = NoFault
                     /\ thr[t].clause # None => thr[t].fault.kind = "Exception")
    /\ [][ /\ \A t \in Threads :
               Ends500(t)
                  => /\ UNCHANGED <<tokenizer, model, device, loadpc, lifespan>>
                     /\ Accepting => Accepting'
           /\ (Accepting /\ ~Accepting')
                 => \E t \in Threads :
                      Escaped(t) /\ thr[t].resp.kind = "BaseException" ]_vars

\* C4 witness: the forward pass threw an Exception, the request ended with
\* 500, and a later analysis in the same process succeeded.
C4_Witness ==
    /\ sawError = "error"
    /\ Accepting
    /\ \E t \in Threads : Succeeded(t)
    /\ \E t \in Threads :
         /\ Analyzed(t)
         /\ thr[t].fault = Thrown("forward", "Exception")
         /\ thr[t].clause = "ok"
         /\ thr[t].resp.status = 500

\* C5: a /health call during which no global went from absent to populated
\* reports model_loaded and tokenizer_loaded as exactly whether model and
\* tokenizer are populated and ready = tokenizer_loaded AND model_loaded,
\* and while the globals stay so, ready is false exactly when the guard of
\* /analyze holds; an /analyze call is answered 503 exactly when model or
\* tokenizer is absent when it is called.  With both populated /health
\* always reports ready.
C5_HealthMatchesGuard ==
    /\ \A t \in Threads :
         (Checked(t) /\ thr[t].later = thr[t].at)
            => /\ thr[t].resp.model_loaded = thr[t].at.model
               /\ thr[t].resp.tokenizer_loaded = thr[t].at.tokenizer
               /\ thr[t].resp.ready =
                    (thr[t].resp.tokenizer_loaded /\ thr[t].resp.model_loaded)
               /\ Loaded(model, tokenizer) = thr[t].at
                    => (~thr[t].resp.ready <=> NotLoaded(model, tokenizer))
    /\ \A u \in Threads :
         Analyzed(u)
            => ((thr[u].resp.status = 503)
                  <=> ~(thr[u].at.model /\ thr[u].at.tokenizer))
    /\ \A t \in Threads :
         (Checked(t) /\ thr[t].at.model /\ thr[t].at.tokenizer)
            => (thr[t].later = thr[t].at /\ thr[t].resp.ready)

\* C5 witness: only the tokenizer is loaded and nothing changed while
\* /health ran; it reports ready = false, and /analyze called now would be
\* answered 503.
C5_Witness ==
    \E t \in Threads :
        /\ Checked(t)
        /\ thr[t].later = thr[t].at
        /\ thr[t].resp.tokenizer_loaded
        /\ ~thr[t].resp.model_loaded
        /\ ~thr[t].resp.ready
        /\ Loaded(model, tokenizer) = thr[t].at
        /\ NotLoaded(model, tokenizer)

\* C6: a successful /analyze response has prediction VULNERABLE or SAFE,
\* VULNERABLE exactly when is_vulnerable, is_vulnerable exactly when the
\* selected class index is 1 (0 gives SAFE), and confidence within [0, 1].
C6_ResponseConsistent ==
    \A t \in Threads :
        Succeeded(t)
            => /\ thr[t].resp.prediction \in {"VULNERABLE", "SAFE"}
               /\ (thr[t].resp.prediction = "VULNERABLE") <=> thr[t].resp.is_vulnerable
               /\ thr[t].resp.is_vulnerable <=> (thr[t].locals.prediction_idx = 1)
               /\ (thr[t].resp.prediction = "SAFE") <=> (thr[t].locals.prediction_idx = 0)
               /\ thr[t].locals.prediction_idx \in {0, 1}
               /\ thr[t].resp.confidence >= 0
               /\ thr[t].resp.confidence <= 10000

\* C6 witness: one pending response is VULNERABLE and another is SAFE.
C6_Witness ==
    \E t, u \in Threads :
        /\ Succeeded(t) /\ thr[t].resp.prediction = "VULNERABLE"
        /\ thr[t].locals.prediction_idx = 1
        /\ Succeeded(u) /\ thr[u].resp.prediction = "SAFE"

\* C7: no step taken while requests are served changes tokenizer, model or
\* device; these change only in steps of load_model; and once both are
\* loaded they stay loaded.
C7_HandlersLeaveResource ==
    [][ /\ Accepting => UNCHANGED <<tokenizer, model, device>>
        /\ (<<tokenizer, model, device>>' # <<tokenizer, model, device>>)
              => (LoadRunning /\ loadpc' # loadpc)
        /\ (Ready /\ loadpc = "done") => Ready' ]_vars

\* C7 witness: two requests are in flight after the load, one of them an
\* analysis that ran the forward pass.
C7_Witness ==
    \E t, u \in Threads :
        /\ t # u
        /\ Analyzed(t) /\ Len(thr[t].calls) = Len(Tensors) + 2
        /\ Analyzed(u) /\ thr[u].req.code # thr[t].req.code
        /\ Accepting

C9_FilenameEchoed ==
    /\ \A t \in Threads :
         Succeeded(t)
            => /\ thr[t].given # Absent => thr[t].resp.filename = thr[t].given
               /\ thr[t].given = Absent => thr[t].resp.filename = "unknown.java"
               /\ thr[t].resp.filename = thr[t].req.filename
    /\ \A t, u \in Threads :
         (Succeeded(t) /\ Succeeded(u) /\ thr[t].req.code = thr[u].req.code
            /\ thr[t].given # thr[u].given)
            => ResultOf(thr[t].resp) = ResultOf(thr[u].resp)

\* C9 witness: two pending responses for the same code, one for a request
\* without a filename and one for UserDAO.java, each with its own filename.
C9_Witness ==
    \E t, u \in Threads :
        /\ Succeeded(t) /\ Succeeded(u)
        /\ thr[t].req.code = thr[u].req.code
        /\ thr[t].given = Absent /\ thr[t].resp.filename = "unknown.java"
        /\ thr[u].given = "UserDAO.java" /\ thr[u].resp.filename = "UserDAO.java"

\* C10: the selected index has the larger logit and a probability not below
\* the other class's; with equal logits index 0 is selected and the
\* probabilities are equal; the confidence is the selected class's
\* probability rounded to four decimals, never below the other's.
C10_ArgMaxSelectsHigher ==
    \A t \in Threads :
        Succeeded(t)
            => LET l == thr[t].locals.logits
                   p == thr[t].locals.probabilities
                   i == thr[t].locals.prediction_idx
                   o == 1 - i
               IN  /\ l = Forward(model, thr[t].req.code)
                   /\ l[i + 1] >= l[o + 1]
                   /\ F32Leq(p[o + 1], p[i + 1])
                   /\ l[i + 1] > l[o + 1] => ~F32Leq(p[i + 1], p[o + 1])
                   /\ l[1] = l[2] => (i = 0 /\ p[1] = p[2])
                   /\ F32Leq(<<8388608, 24>>, p[i + 1])
                   /\ F32Leq(p[i + 1], One)
                   /\ thr[t].resp.confidence = Round4(p[i + 1])
                   /\ thr[t].resp.confidence >= Round4(p[o + 1])

\* C10 witness: one pending response comes from equal logits, another from
\* logits where class 1 is ahead.
C10_Witness ==
    \E t, u \in Threads :
        /\ Succeeded(t)
        /\ thr[t].locals.logits[1] = thr[t].locals.logits[2]
        /\ thr[t].locals.prediction_idx = 0
        /\ thr[t].resp.confidence = 5000
        /\ Succeeded(u)
        /\ thr[u].locals.logits[2] > thr[u].locals.logits[1]
        /\ thr[u].locals.prediction_idx = 1

====
